---- MODULE Spec2Model ----
(***************************************************************************)
(* i2pdoc2pdf: acquisition of a document tree (wget under a deadline,      *)
(* raced against SIGINT/SIGTERM, cleanup of temporary files) and the       *)
(* aggregation pipeline (findHTMLFiles, section titles, table of contents, *)
(* content blocks, render), with the clean-up of a parsed document         *)
(* (replaceURLForPlaceholders).                                            *)
(*                                                                         *)
(* Strings are sequences of one-character strings, so that TrimPrefix,     *)
(* TrimSuffix, HasSuffix, ReplaceAll, filepath.Join/Dir/Base act on the    *)
(* characters as the Go functions do.                                      *)
(***************************************************************************)
EXTENDS Integers, Sequences, FiniteSets, TLC

VARIABLES
    \* ---- src/main.go: main, downloadAndProcessDocs, cleanupDownloadDir
    pcMain,     \* position of main()
    pcDl,       \* position of the goroutine running downloadAndProcessDocs
    dlErr,      \* the error value downloadAndProcessDocs is returning
    wget,       \* state of the wget subprocess
    conv,       \* state of the convert-script subprocess
    ctx,        \* state of the context.WithTimeout context
    sigChan,    \* number of signals buffered in `interrupt` (cap 1)
    errChan,    \* contents of errChan (cap 1)
    cwd,        \* process working directory, as path components
    fs,         \* the files and directories that exist (absolute components)
    branch,     \* which case of main's select was taken
    walkTodo,   \* paths filepath.Walk has still to visit in cleanupDownloadDir
    cleanErr,   \* result of cleanupDownloadDir
    exitCode,   \* status passed to os.Exit
    nSig,       \* signals delivered so far
    nWrites,    \* file operations wget has made so far
    \* ---- the aggregation pipeline (part_001 main, main.go lines 206-372)
    stage,      \* position of the pipeline
    baseDir,    \* inputDir, the argument of findHTMLFiles
    tree,       \* files below the input directory
    denied,     \* the paths of the tree that cannot be accessed
    htmlFiles,  \* result of findHTMLFiles
    toc,        \* <li> entries written to combinedHTML
    blocks,     \* chapter blocks written to combinedHTML
    skipped,    \* the documents the content loop wrote no block for
    outcome,    \* what happened to the document of the last iteration
    idx,        \* loop index of the content loop
    \* ---- the clean-up of one parsed document in the content loop
    draft,      \* whose content loop it is: main.go's or part_001's
    imgsIn,     \* the img elements of the document as parsed
    imgs,       \* the img elements of the document now
    sanStage    \* position of the clean-up

acqVars == <<pcMain, pcDl, dlErr, wget, conv, ctx, sigChan, errChan, cwd, fs,
             branch, walkTodo, cleanErr, exitCode, nSig, nWrites>>
\* acqVars without the exit status
acqRest == <<pcMain, pcDl, dlErr, wget, conv, ctx, sigChan, errChan, cwd, fs,
             branch, walkTodo, cleanErr, nSig, nWrites>>
docVars == <<stage, baseDir, tree, denied, htmlFiles, toc, blocks, skipped,
             outcome, idx>>
sanVars == <<draft, imgsIn, imgs, sanStage>>
vars == <<acqVars, docVars, sanVars>>

----------------------------------------------------------------------------
(* Bounds *)

\* signals the environment delivers during one run
MaxSignals == 1
\* file operations the wget subprocess performs during one run
MaxWrites == 2
\* how many files of TreeUniverse a document tree may contain
MaxTreeFiles == 6
\* how many paths of a document tree may be inaccessible
MaxDenied == 1
\* how many img elements a document may hold
MaxImgs == 2

----------------------------------------------------------------------------
(* Strings *)

\* the characters that occur in path names and titles, in byte order; ">"
\* stands for the arrow U+2192
Alphabet == <<" ", "-", ".", "/", "2", "H", "L", "M", "P", "T", "a", "b", "c", "d",
              "e", "g", "h", "i", "l", "m", "n", "o", "p", "q", "r", "s",
              "t", "w", "x", ">">>

Code(c) == CHOOSE i \in 1..Len(Alphabet) : Alphabet[i] = c

\* strings.ToLower
ToLowerChar(c) ==
    CASE c = "H" -> "h"
      [] c = "L" -> "l"
      [] c = "M" -> "m"
      [] c = "P" -> "p"
      [] c = "T" -> "t"
      [] OTHER -> c

ToLower(s) == [i \in 1..Len(s) |-> ToLowerChar(s[i])]

\* strings.HasPrefix
HasPrefix(s, p) == Len(s) >= Len(p) /\ SubSeq(s, 1, Len(p)) = p

\* strings.HasSuffix
HasSuffix(s, x) ==
    Len(s) >= Len(x) /\ SubSeq(s, Len(s) - Len(x) + 1, Len(s)) = x

\* strings.TrimPrefix
TrimPrefix(s, p) == IF HasPrefix(s, p) THEN SubSeq(s, Len(p) + 1, Len(s)) ELSE s

\* strings.TrimSuffix
TrimSuffix(s, x) == IF HasSuffix(s, x) THEN SubSeq(s, 1, Len(s) - Len(x)) ELSE s

\* strings.ReplaceAll(s, old, new), old non-empty
RECURSIVE ReplaceAll(_, _, _)
ReplaceAll(s, old, new) ==
    IF s = <<>> THEN <<>>
    ELSE IF HasPrefix(s, old)
         THEN new \o ReplaceAll(SubSeq(s, Len(old) + 1, Len(s)), old, new)
         ELSE <<s[1]>> \o ReplaceAll(Tail(s), old, new)

\* byte-wise string order, as sort.Strings uses in readDirNames
RECURSIVE StrLess(_, _)
StrLess(s, t) ==
    IF t = <<>> THEN FALSE
    ELSE IF s = <<>> THEN TRUE
    ELSE IF s[1] = t[1] THEN StrLess(Tail(s), Tail(t))
    ELSE Code(s[1]) < Code(t[1])

\* a set of strings as a sorted sequence
RECURSIVE SortNames(_)
SortNames(S) ==
    IF S = {} THEN <<>>
    ELSE LET m == CHOOSE x \in S : \A y \in S \ {x} : StrLess(x, y)
         IN  <<m>> \o SortNames(S \ {m})

SLASH == <<"/">>
DOT_HTML == <<".", "h", "t", "m", "l">>
DOT_TMP == <<".", "t", "m", "p">>
DOT_WGET == <<".", "w", "g", "e", "t">>
INDEX_HTML == <<"i", "n", "d", "e", "x">> \o DOT_HTML
ARROW == <<" ", ">", " ">>

\* filepath.Clean on the paths that occur: drops leading "./" elements
RECURSIVE Clean(_)
Clean(s) ==
    IF Len(s) > 2 /\ HasPrefix(s, <<".", "/">>) THEN Clean(SubSeq(s, 3, Len(s)))
    ELSE s

\* filepath.Join(dir, name)
Join(dir, name) == Clean(dir \o SLASH \o name)

\* index of the last "/" of s, 0 when there is none
LastSlash(s) ==
    IF \E i \in 1..Len(s) : s[i] = "/"
    THEN CHOOSE i \in 1..Len(s) : s[i] = "/" /\ \A j \in (i+1)..Len(s) : s[j] # "/"
    ELSE 0

\* filepath.Dir on a cleaned path
Dir(s) == IF LastSlash(s) = 0 THEN <<".">> ELSE SubSeq(s, 1, LastSlash(s) - 1)

\* filepath.Base on a cleaned path
Base(s) == SubSeq(s, LastSlash(s) + 1, Len(s))

\* the path string of a list of components
RECURSIVE PathStr(_)
PathStr(p) ==
    IF p = <<>> THEN <<".">>
    ELSE IF Len(p) = 1 THEN p[1]
    ELSE p[1] \o SLASH \o PathStr(Tail(p))

----------------------------------------------------------------------------
(* The file system of the acquisition: absolute paths as lists of          *)
(* components below the directory the program was started in.              *)

N_OUT == <<"i", "2", "p", "-", "d", "o", "c", "s">>
N_SITE == <<"g", "e", "t", "i", "2", "p", ".", "n", "e", "t">>
N_PAGE == <<"p">> \o DOT_HTML
N_PART == <<"p">> \o DOT_TMP
N_LOCK == <<"r">> \o DOT_WGET
N_OLD == <<"n">> \o DOT_HTML

\* config.OutputDir, "./i2p-docs"
OutputDir == <<".", "/">> \o N_OUT

\* the components a relative path string of the program denotes
OutComps == <<N_OUT>>

D_OUT == <<N_OUT>>
D_SITE == <<N_OUT, N_SITE>>
D_NEST == <<N_OUT, N_OUT>>
D_NESTSITE == <<N_OUT, N_OUT, N_SITE>>
F_PAGE == <<N_OUT, N_SITE, N_PAGE>>
F_PART == <<N_OUT, N_SITE, N_PART>>
F_LOCK == <<N_OUT, N_LOCK>>
F_OLD == <<N_OUT, N_OUT, N_SITE, N_OLD>>

DirPaths == {D_OUT, D_SITE, D_NEST, D_NESTSITE}
FilePaths == {F_PAGE, F_PART, F_LOCK, F_OLD}

IsPrefixOf(p, q) == Len(p) <= Len(q) /\ SubSeq(q, 1, Len(p)) = p

\* every entry's parent directories
Parents(p) == {SubSeq(p, 1, n) : n \in 1..(Len(p) - 1)}

\* a set of entries together with the directories that hold them
WithParents(S) == S \cup UNION {Parents(p) : p \in S}

\* what the output root may hold when the program starts
InitialTrees == {WithParents(S) : S \in SUBSET FilePaths}

\* a relative path of the program, resolved by the kernel against cwd
Resolve(rel) == cwd \o rel

\* os.Stat / os.Lstat on a relative path
Exists(rel) == Resolve(rel) \in fs

IsDir(rel) == Resolve(rel) \in DirPaths

\* readDirNames: the sorted names in a directory
ReadDirNames(rel) ==
    SortNames({p[Len(Resolve(rel)) + 1] :
                 p \in {q \in fs : IsPrefixOf(Resolve(rel), q)
                                    /\ Len(q) = Len(Resolve(rel)) + 1}})

\* the temporary files below the output root
TempFiles ==
    {p \in fs : IsPrefixOf(D_OUT, p)
                /\ (HasSuffix(PathStr(p), DOT_TMP) \/ HasSuffix(PathStr(p), DOT_WGET))}

----------------------------------------------------------------------------
(* src/main.go: main, the download goroutine, the subprocesses             *)

DownloadedDir == OutComps \o <<N_SITE>>

CtxDone == ctx \in {"deadlineMid", "deadlineLate", "canceled"}

Finished(proc) == proc \in {"ok", "fail", "killed"}

InitAcq ==
    /\ pcMain = "go"
    /\ pcDl = "idle"
    /\ dlErr = "nil"
    /\ wget = "none"
    /\ conv = "none"
    /\ ctx = "none"
    /\ sigChan = 0
    /\ errChan = <<>>
    /\ cwd = <<>>
    /\ branch = "none"
    /\ walkTodo = <<>>
    /\ cleanErr = "none"
    /\ exitCode = -1
    /\ nSig = 0
    /\ nWrites = 0

\* main.go leaves through os.Exit before the pipeline
IdleDocs ==
    /\ stage = "none"
    /\ baseDir = <<>>
    /\ tree = {}
    /\ denied = {}
    /\ htmlFiles = <<>>
    /\ toc = <<>>
    /\ blocks = <<>>
    /\ skipped = <<>>
    /\ outcome = "none"
    /\ idx = 0

\* no document is being cleaned up
IdleSan ==
    /\ draft = "none"
    /\ imgsIn = <<>>
    /\ imgs = <<>>
    /\ sanStage = "none"

Init == InitAcq /\ fs \in InitialTrees /\ IdleDocs /\ IdleSan

\* go func() { errChan <- downloadAndProcessDocs(config) }()
MainGo ==
    /\ pcMain = "go"
    /\ pcMain' = "select"
    /\ pcDl' = "mkdir"
    /\ UNCHANGED <<dlErr, wget, conv, ctx, sigChan, errChan, cwd, fs, branch,
                   walkTodo, cleanErr, exitCode, nSig, nWrites, docVars, sanVars>>

\* os.MkdirAll(config.OutputDir, 0755)
DlMkdir ==
    /\ pcMain # "exited" /\ pcDl = "mkdir"
    /\ \E ok \in BOOLEAN :
         IF ok
         THEN /\ fs' = fs \cup {Resolve(OutComps)}
              /\ pcDl' = "chdir"
              /\ dlErr' = dlErr
         ELSE /\ fs' = fs
              /\ pcDl' = "send"
              /\ dlErr' = "mkdir"
    /\ UNCHANGED <<pcMain, wget, conv, ctx, sigChan, errChan, cwd, branch,
                   walkTodo, cleanErr, exitCode, nSig, nWrites, docVars, sanVars>>

\* os.Getwd, os.Chdir(config.OutputDir), defer os.Chdir(originalDir),
\* context.WithTimeout, defer cancel()
DlChdir ==
    /\ pcMain # "exited" /\ pcDl = "chdir"
    /\ \E ok \in BOOLEAN :
         IF ok /\ Exists(OutComps)
         THEN /\ cwd' = Resolve(OutComps)
              /\ ctx' = "active"
              /\ pcDl' = "wget"
              /\ dlErr' = dlErr
         ELSE /\ cwd' = cwd
              /\ ctx' = ctx
              /\ pcDl' = "send"
              /\ dlErr' = "chdir"
    /\ UNCHANGED <<pcMain, wget, conv, sigChan, errChan, fs, branch,
                   walkTodo, cleanErr, exitCode, nSig, nWrites, docVars, sanVars>>

\* cmd.Run() of wget: the start of the subprocess
DlStartWget ==
    /\ pcMain # "exited" /\ pcDl = "wget"
    /\ \E present \in BOOLEAN :
         IF present /\ ~CtxDone
         THEN /\ wget' = "running"
              /\ pcDl' = "waitWget"
              /\ dlErr' = dlErr
         ELSE /\ wget' = wget
              /\ pcDl' = "ret"
              /\ dlErr' = "wget"
    /\ UNCHANGED <<pcMain, conv, ctx, sigChan, errChan, cwd, fs, branch,
                   walkTodo, cleanErr, exitCode, nSig, nWrites, docVars, sanVars>>

\* cmd.Run() of wget: the wait for the subprocess
DlWaitWget ==
    /\ pcMain # "exited" /\ pcDl = "waitWget" /\ Finished(wget)
    /\ IF wget = "ok"
       THEN pcDl' = "stat" /\ dlErr' = dlErr
       ELSE pcDl' = "ret" /\ dlErr' = "wget"
    /\ UNCHANGED <<pcMain, wget, conv, ctx, sigChan, errChan, cwd, fs, branch,
                   walkTodo, cleanErr, exitCode, nSig, nWrites, docVars, sanVars>>

\* os.Stat(filepath.Join(config.OutputDir, "geti2p.net"))
DlStat ==
    /\ pcMain # "exited" /\ pcDl = "stat"
    /\ IF Exists(DownloadedDir)
       THEN pcDl' = "convert" /\ dlErr' = dlErr
       ELSE pcDl' = "ret" /\ dlErr' = "notfound"
    /\ UNCHANGED <<pcMain, wget, conv, ctx, sigChan, errChan, cwd, fs, branch,
                   walkTodo, cleanErr, exitCode, nSig, nWrites, docVars, sanVars>>

\* convertCmd.Run(): the start of bash convert.sh
DlStartConvert ==
    /\ pcMain # "exited" /\ pcDl = "convert"
    /\ \E present \in BOOLEAN :
         IF present /\ ~CtxDone
         THEN /\ conv' = "running"
              /\ pcDl' = "waitConv"
              /\ dlErr' = dlErr
         ELSE /\ conv' = conv
              /\ pcDl' = "ret"
              /\ dlErr' = "convert"
    /\ UNCHANGED <<pcMain, wget, ctx, sigChan, errChan, cwd, fs, branch,
                   walkTodo, cleanErr, exitCode, nSig, nWrites, docVars, sanVars>>

\* convertCmd.Run(): the wait for the subprocess
DlWaitConvert ==
    /\ pcMain # "exited" /\ pcDl = "waitConv" /\ Finished(conv)
    /\ pcDl' = "ret"
    /\ dlErr' = IF conv = "ok" THEN "nil" ELSE "convert"
    /\ UNCHANGED <<pcMain, wget, conv, ctx, sigChan, errChan, cwd, fs, branch,
                   walkTodo, cleanErr, exitCode, nSig, nWrites, docVars, sanVars>>

\* the return of downloadAndProcessDocs: cancel(), then os.Chdir(originalDir)
DlReturn ==
    /\ pcMain # "exited" /\ pcDl = "ret"
    /\ ctx' = IF ctx = "active" THEN "canceled" ELSE ctx
    /\ cwd' = <<>>
    /\ pcDl' = "send"
    /\ UNCHANGED <<pcMain, dlErr, wget, conv, sigChan, errChan, fs, branch,
                   walkTodo, cleanErr, exitCode, nSig, nWrites, docVars, sanVars>>

\* errChan <- err
DlSend ==
    /\ pcMain # "exited" /\ pcDl = "send"
    /\ errChan' = <<dlErr>>
    /\ pcDl' = "done"
    /\ UNCHANGED <<pcMain, dlErr, wget, conv, ctx, sigChan, cwd, fs, branch,
                   walkTodo, cleanErr, exitCode, nSig, nWrites, docVars, sanVars>>

\* the timer of context.WithTimeout fires
DeadlineExpire ==
    /\ pcMain # "exited" /\ ctx = "active"
    /\ ctx' = IF pcDl \in {"wget", "waitWget"} /\ wget \in {"none", "running"}
              THEN "deadlineMid"
              ELSE "deadlineLate"
    /\ UNCHANGED <<pcMain, pcDl, dlErr, wget, conv, sigChan, errChan, cwd, fs,
                   branch, walkTodo, cleanErr, exitCode, nSig, nWrites, docVars, sanVars>>

\* exec.CommandContext: the context is done, the wget process is killed
CtxKillWget ==
    /\ pcMain # "exited" /\ CtxDone /\ wget = "running"
    /\ wget' = "killed"
    /\ UNCHANGED <<pcMain, pcDl, dlErr, conv, ctx, sigChan, errChan, cwd, fs,
                   branch, walkTodo, cleanErr, exitCode, nSig, nWrites, docVars, sanVars>>

\* exec.CommandContext: the context is done, the convert process is killed
CtxKillConvert ==
    /\ pcMain # "exited" /\ CtxDone /\ conv = "running"
    /\ conv' = "killed"
    /\ UNCHANGED <<pcMain, pcDl, dlErr, wget, ctx, sigChan, errChan, cwd, fs,
                   branch, walkTodo, cleanErr, exitCode, nSig, nWrites, docVars, sanVars>>

\* wget, started in the output directory, creates a temporary file
WgetCreateTemp ==
    /\ wget = "running" /\ nWrites < MaxWrites
    /\ F_PART \notin fs
    /\ fs' = fs \cup WithParents({F_PART})
    /\ nWrites' = nWrites + 1
    /\ UNCHANGED <<pcMain, pcDl, dlErr, wget, conv, ctx, sigChan, errChan, cwd,
                   branch, walkTodo, cleanErr, exitCode, nSig, docVars, sanVars>>

\* wget renames the temporary file to the downloaded page
WgetRename ==
    /\ wget = "running" /\ nWrites < MaxWrites
    /\ F_PART \in fs
    /\ fs' = (fs \ {F_PART}) \cup {F_PAGE}
    /\ nWrites' = nWrites + 1
    /\ UNCHANGED <<pcMain, pcDl, dlErr, wget, conv, ctx, sigChan, errChan, cwd,
                   branch, walkTodo, cleanErr, exitCode, nSig, docVars, sanVars>>

\* wget exits by itself, with status zero or not
WgetExit ==
    /\ wget = "running"
    /\ \E ok \in BOOLEAN : wget' = IF ok THEN "ok" ELSE "fail"
    /\ UNCHANGED <<pcMain, pcDl, dlErr, conv, ctx, sigChan, errChan, cwd, fs,
                   branch, walkTodo, cleanErr, exitCode, nSig, nWrites, docVars, sanVars>>

\* bash convert.sh exits by itself, with status zero or not
ConvertExit ==
    /\ conv = "running"
    /\ \E ok \in BOOLEAN : conv' = IF ok THEN "ok" ELSE "fail"
    /\ UNCHANGED <<pcMain, pcDl, dlErr, wget, ctx, sigChan, errChan, cwd, fs,
                   branch, walkTodo, cleanErr, exitCode, nSig, nWrites, docVars, sanVars>>

\* SIGINT or SIGTERM arrives: signal.Notify relays it to `interrupt` without
\* blocking. A signal from the terminal reaches the whole process group
\* (group), one sent to the process alone does not.
Signal ==
    /\ pcMain # "exited" /\ nSig < MaxSignals
    /\ nSig' = nSig + 1
    /\ sigChan' = 1
    /\ \E group \in BOOLEAN :
         /\ wget' = IF group /\ wget = "running" THEN "fail" ELSE wget
         /\ conv' = IF group /\ conv = "running" THEN "fail" ELSE conv
    /\ UNCHANGED <<pcMain, pcDl, dlErr, ctx, errChan, cwd, fs, branch,
                   walkTodo, cleanErr, exitCode, nWrites, docVars, sanVars>>

\* select: case err := <-errChan, then the error test; on nil, os.Exit(0)
MainSelectErr ==
    /\ pcMain = "select" /\ errChan # <<>>
    /\ errChan' = <<>>
    /\ branch' = "completion"
    /\ IF Head(errChan) # "nil"
       THEN pcMain' = "cleanup" /\ exitCode' = exitCode
       ELSE pcMain' = "exited" /\ exitCode' = 0
    /\ UNCHANGED <<pcDl, dlErr, wget, conv, ctx, sigChan, cwd, fs,
                   walkTodo, cleanErr, nSig, nWrites, docVars, sanVars>>

\* the interrupt case leaving without the cleanup
MainSelectInterruptNoCleanup ==
    /\ pcMain = "select" /\ sigChan = 1
    /\ sigChan' = 0
    /\ branch' = "interrupt"
    /\ pcMain' = "exit1"
    /\ UNCHANGED <<pcDl, dlErr, wget, conv, ctx, errChan, cwd, fs,
                   walkTodo, cleanErr, exitCode, nSig, nWrites, docVars, sanVars>>

\* select: case <-interrupt
MainSelectInterrupt ==
    /\ pcMain = "select" /\ sigChan = 1
    /\ sigChan' = 0
    /\ branch' = "interrupt"
    /\ pcMain' = "cleanup"
    /\ UNCHANGED <<pcDl, dlErr, wget, conv, ctx, errChan, cwd, fs,
                   walkTodo, cleanErr, exitCode, nSig, nWrites, docVars, sanVars>>

\* cleanupDownloadDir(config.OutputDir): filepath.Walk's Lstat of the root
CleanupStart ==
    /\ pcMain = "cleanup"
    /\ IF Exists(OutComps)
       THEN /\ walkTodo' = <<OutComps>>
            /\ pcMain' = "walking"
            /\ cleanErr' = cleanErr
       ELSE /\ walkTodo' = walkTodo
            /\ pcMain' = "exit1"
            /\ cleanErr' = "err"
    /\ UNCHANGED <<pcDl, dlErr, wget, conv, ctx, sigChan, errChan, cwd, fs,
                   branch, exitCode, nSig, nWrites, docVars, sanVars>>

\* the path string filepath.Walk hands to the walk function: the root as
\* given, everything below it joined and cleaned
WalkPath(p) == IF p = OutComps THEN OutputDir ELSE PathStr(p)

\* the walk function of cleanupDownloadDir on a path
IsTemporary(path) == HasSuffix(path, DOT_TMP) \/ HasSuffix(path, DOT_WGET)

\* filepath.Walk visits the next path: lstat, the walk function (os.Remove of
\* a temporary file), and for a directory the listing of its names
CleanupVisit ==
    /\ pcMain = "walking" /\ walkTodo # <<>>
    /\ LET p == Head(walkTodo)
           names == ReadDirNames(p)
           below == [i \in 1..Len(names) |-> p \o <<names[i]>>]
       IN  \E removed \in BOOLEAN :
             IF ~Exists(p) \/ (IsTemporary(WalkPath(p)) /\ ~removed)
             THEN /\ cleanErr' = "err"
                  /\ pcMain' = "exit1"
                  /\ walkTodo' = <<>>
                  /\ fs' = fs
             ELSE /\ cleanErr' = cleanErr
                  /\ pcMain' = pcMain
                  /\ fs' = IF IsTemporary(WalkPath(p)) THEN fs \ {Resolve(p)} ELSE fs
                  /\ walkTodo' = IF IsDir(p) /\ ~IsTemporary(WalkPath(p))
                                 THEN below \o Tail(walkTodo)
                                 ELSE Tail(walkTodo)
    /\ UNCHANGED <<pcDl, dlErr, wget, conv, ctx, sigChan, errChan, cwd,
                   branch, exitCode, nSig, nWrites, docVars, sanVars>>

\* filepath.Walk has visited everything: cleanupDownloadDir returns nil
CleanupDone ==
    /\ pcMain = "walking" /\ walkTodo = <<>>
    /\ cleanErr' = "nil"
    /\ pcMain' = "exit1"
    /\ UNCHANGED <<pcDl, dlErr, wget, conv, ctx, sigChan, errChan, cwd, fs,
                   branch, walkTodo, exitCode, nSig, nWrites, docVars, sanVars>>

\* the cleanup error, if any, is logged; os.Exit(1)
MainExit1 ==
    /\ pcMain = "exit1"
    /\ exitCode' = 1
    /\ pcMain' = "exited"
    /\ UNCHANGED <<pcDl, dlErr, wget, conv, ctx, sigChan, errChan, cwd, fs,
                   branch, walkTodo, cleanErr, nSig, nWrites, docVars, sanVars>>

Next ==
    \/ MainGo
    \/ DlMkdir
    \/ DlChdir
    \/ DlStartWget
    \/ DlWaitWget
    \/ DlStat
    \/ DlStartConvert
    \/ DlWaitConvert
    \/ DlReturn
    \/ DlSend
    \/ DeadlineExpire
    \/ CtxKillWget
    \/ CtxKillConvert
    \/ WgetCreateTemp
    \/ WgetRename
    \/ WgetExit
    \/ ConvertExit
    \/ Signal
    \/ MainSelectErr
    \/ MainSelectInterrupt
    \/ CleanupStart
    \/ CleanupVisit
    \/ CleanupDone
    \/ MainExit1

Spec == Init /\ [][Next]_vars

----------------------------------------------------------------------------
(* findHTMLFiles and the section titles                                    *)

N_DOCS == <<"d", "o", "c", "s">>
N_A == <<"a">>
N_B == <<"b">>
N_C == <<"c">>
N_PAGEDOC == <<"p", "a", "g", "e">> \o DOT_HTML
N_QQ == <<"q">> \o DOT_HTML \o DOT_HTML
N_UPPER == <<"P", ".", "H", "T", "M", "L">>

\* the files a document tree is drawn from, as components below the
\* directory the program runs in
TreeUniverse ==
    << <<N_DOCS, N_A, INDEX_HTML>>,
       <<N_DOCS, N_B, N_PAGEDOC>>,
       <<N_DOCS, N_C, INDEX_HTML>>,
       <<N_DOCS, INDEX_HTML>>,
       <<N_DOCS, N_A, N_QQ>>,
       <<N_DOCS, N_B, N_UPPER>>,
       <<N_DOCS, N_DOCS \o DOT_HTML>> >>

TreeFiles ==
    {TreeUniverse[i] : i \in 1..(IF MaxTreeFiles < Len(TreeUniverse)
                                  THEN MaxTreeFiles ELSE Len(TreeUniverse))}

\* the directory the root argument denotes
RootComps == <<N_DOCS>>

\* inputDir of main, "./docs", and the same directory written "docs"
InputDir == <<".", "/">> \o N_DOCS
Roots == {InputDir, N_DOCS}

\* the directories of a tree
TreeDirs(t) == {RootComps} \cup UNION {Parents(f) : f \in t}

\* the sorted names in directory d of tree t
TreeNames(d, t) ==
    SortNames({e[Len(d) + 1] :
                 e \in {x \in t \cup TreeDirs(t) :
                           IsPrefixOf(d, x) /\ Len(x) = Len(d) + 1}})

\* the paths that may be inaccessible: a directory that cannot be listed, a
\* file that cannot be lstat-ed
DeniedPaths == {<<N_DOCS, N_A>>, <<N_DOCS, N_B, N_PAGEDOC>>}

\* the walk function of findHTMLFiles on one path: what it appends to files.
\* filepath.Walk hands it the error of Lstat or of readDirNames; it logs the
\* error and returns nil.
FoundAt(base, path, comps, t) ==
    IF comps \in denied
    THEN <<>>
    ELSE IF comps \in TreeDirs(t)
    THEN IF (comps \o <<INDEX_HTML>>) \in t /\ (comps \o <<INDEX_HTML>>) \notin denied
         THEN <<Join(path, INDEX_HTML)>>
         ELSE <<>>
    ELSE IF HasSuffix(ToLower(path), DOT_HTML)
            /\ (Dir(path) = base \/ Base(path) # INDEX_HTML)
         THEN <<path>>
         ELSE <<>>

\* filepath.Walk: the walk function on a path, then the names below it in
\* sorted order; a directory whose listing failed is not descended into
RECURSIVE WalkFrom(_, _, _, _)
RECURSIVE WalkNames(_, _, _, _, _)
\* a walk that does not descend into a directory that has an index.html
WalkFromSkipIndexed(base, path, comps, t) ==
    FoundAt(base, path, comps, t)
    \o (IF comps \in TreeDirs(t) /\ comps \notin denied
           /\ (comps \o <<INDEX_HTML>>) \notin t
        THEN WalkNames(base, path, comps, TreeNames(comps, t), t)
        ELSE <<>>)
WalkFrom(base, path, comps, t) ==
    FoundAt(base, path, comps, t)
    \o (IF comps \in TreeDirs(t) /\ comps \notin denied
        THEN WalkNames(base, path, comps, TreeNames(comps, t), t)
        ELSE <<>>)
WalkNames(base, path, comps, names, t) ==
    IF names = <<>> THEN <<>>
    ELSE WalkFrom(base, Join(path, Head(names)), comps \o <<Head(names)>>, t)
         \o WalkNames(base, path, comps, Tail(names), t)

findHTMLFiles(base, t) == WalkFrom(base, base, RootComps, t)

\* the paths at which the walk of tree t met an error
WalkErrors(t) == denied \cap (t \cup TreeDirs(t))

\* the section name main derives from a file path
SectionName(htmlFile, inputDir) ==
    ReplaceAll(
        TrimSuffix(
            TrimSuffix(
                TrimPrefix(TrimPrefix(htmlFile, inputDir), SLASH),
                SLASH \o INDEX_HTML),
            DOT_HTML),
        SLASH, ARROW)

----------------------------------------------------------------------------
(* The aggregation pipeline of main: discovery, table of contents,         *)
(* content blocks, render                                                  *)

\* what can happen to one document in the content loop
DocOutcomes == {"ok", "unreadable", "unparseable", "nobody", "htmlerr"}

\* what can happen while the documents are fetched: filepath.Abs fails, the
\* clone directory is there already, CloneRepo returns nil or an error
CloneOutcomes == {"absErr", "cloneSkipped", "cloned", "cloneErr"}

\* what can happen in the render stage: NewPDFGenerator, Create or WriteFile
\* fails, or the PDF is written
RenderOutcomes == {"generatorErr", "createErr", "pdfWriteErr", "pdfWritten"}

\* the stages main leaves through log.Fatal / log.Fatalf
FatalStages == {"fatalClone", "fatalCopy", "fatalNoDocs", "fatalWrite", "fatalRender"}

\* the draft of main in part_001 has no download goroutine
IdleAcq ==
    /\ pcMain = "none"
    /\ pcDl = "idle"
    /\ dlErr = "nil"
    /\ wget = "none"
    /\ conv = "none"
    /\ ctx = "none"
    /\ sigChan = 0
    /\ errChan = <<>>
    /\ cwd = <<>>
    /\ fs = {}
    /\ branch = "none"
    /\ walkTodo = <<>>
    /\ cleanErr = "none"
    /\ exitCode = -1
    /\ nSig = 0
    /\ nWrites = 0

InitDocs ==
    /\ IdleAcq
    /\ IdleSan
    /\ stage = "clone"
    /\ baseDir \in Roots
    /\ tree \in SUBSET TreeFiles
    /\ denied \in {D \in SUBSET DeniedPaths : Cardinality(D) <= MaxDenied}
    /\ htmlFiles = <<>>
    /\ toc = <<>>
    /\ blocks = <<>>
    /\ skipped = <<>>
    /\ outcome = "none"
    /\ idx = 0

\* filepath.Abs(repo.CloneDir), os.Stat(repo.CloneDir), CloneRepo(repo);
\* log.Fatalf on an error
Clone ==
    /\ stage = "clone"
    /\ \E o \in CloneOutcomes :
         /\ outcome' = o
         /\ IF o \in {"absErr", "cloneErr"}
            THEN stage' = "fatalClone" /\ exitCode' = 1
            ELSE stage' = "copy" /\ exitCode' = exitCode
    /\ UNCHANGED <<baseDir, tree, denied, htmlFiles, toc, blocks, skipped, idx, acqRest, sanVars>>

\* copyDir(".../docs", "./docs"): log.Fatalf when the copy command fails
CopyDir ==
    /\ stage = "copy"
    /\ \E ok \in BOOLEAN :
         IF ok
         THEN outcome' = "copied" /\ stage' = "discover" /\ exitCode' = exitCode
         ELSE outcome' = "copyErr" /\ stage' = "fatalCopy" /\ exitCode' = 1
    /\ UNCHANGED <<baseDir, tree, denied, htmlFiles, toc, blocks, skipped, idx, acqRest, sanVars>>

\* htmlFiles, err := findHTMLFiles(inputDir), where err is always nil;
\* log.Fatal when no file is found
Discover ==
    /\ stage = "discover"
    /\ htmlFiles' = findHTMLFiles(baseDir, tree)
    /\ outcome' = IF WalkErrors(tree) # {} THEN "walkErr" ELSE "walked"
    /\ IF Len(htmlFiles') = 0
       THEN stage' = "fatalNoDocs" /\ exitCode' = 1
       ELSE stage' = "toc" /\ exitCode' = exitCode
    /\ UNCHANGED <<baseDir, tree, denied, toc, blocks, skipped, idx, acqRest, sanVars>>

\* the first loop over htmlFiles: one <li> per file
WriteTOC ==
    /\ stage = "toc"
    /\ toc' = [i \in 1..Len(htmlFiles) |->
                 [doc |-> i, title |-> SectionName(htmlFiles[i], baseDir)]]
    /\ stage' = "content"
    /\ idx' = 1
    /\ UNCHANGED <<baseDir, tree, denied, htmlFiles, blocks, skipped, outcome, acqVars, sanVars>>

\* one iteration of the second loop ending the run on a file it cannot read
ProcessDocFatal ==
    /\ stage = "content" /\ idx <= Len(htmlFiles)
    /\ \E o \in DocOutcomes :
         /\ outcome' = o
         /\ IF o = "ok"
            THEN /\ blocks' = Append(blocks,
                       [doc |-> idx, title |-> SectionName(htmlFiles[idx], baseDir)])
                 /\ skipped' = skipped
            ELSE /\ blocks' = blocks
                 /\ skipped' = Append(skipped, idx)
         /\ IF o = "unreadable"
            THEN stage' = "fatalRead" /\ exitCode' = 1
            ELSE stage' = stage /\ exitCode' = exitCode
    /\ idx' = idx + 1
    /\ UNCHANGED <<baseDir, tree, denied, htmlFiles, toc, acqRest, sanVars>>

\* one iteration of the second loop: read, parse, clean up, find the body,
\* serialize it, write the chapter block; every failure goes on to the next
\* file
ProcessDoc ==
    /\ stage = "content" /\ idx <= Len(htmlFiles)
    /\ \E o \in DocOutcomes :
         /\ outcome' = o
         /\ IF o = "ok"
            THEN /\ blocks' = Append(blocks,
                       [doc |-> idx, title |-> SectionName(htmlFiles[idx], baseDir)])
                 /\ skipped' = skipped
            ELSE /\ blocks' = blocks
                 /\ skipped' = Append(skipped, idx)
    /\ idx' = idx + 1
    /\ UNCHANGED <<stage, baseDir, tree, denied, htmlFiles, toc, acqVars, sanVars>>

\* the loop is over: "</body></html>", ioutil.WriteFile of combined.html;
\* log.Fatalf on an error
WriteCombined ==
    /\ stage = "content" /\ idx > Len(htmlFiles)
    /\ \E ok \in BOOLEAN :
         IF ok
         THEN outcome' = "written" /\ stage' = "render" /\ exitCode' = exitCode
         ELSE outcome' = "writeErr" /\ stage' = "fatalWrite" /\ exitCode' = 1
    /\ UNCHANGED <<baseDir, tree, denied, htmlFiles, toc, blocks, skipped, idx, acqRest, sanVars>>

\* wkhtmltopdf: NewPDFGenerator, Create, WriteFile, each with log.Fatalf on an
\* error; then main returns
Render ==
    /\ stage = "render"
    /\ \E o \in RenderOutcomes :
         /\ outcome' = o
         /\ IF o = "pdfWritten"
            THEN stage' = "rendered" /\ exitCode' = 0
            ELSE stage' = "fatalRender" /\ exitCode' = 1
    /\ UNCHANGED <<baseDir, tree, denied, htmlFiles, toc, blocks, skipped, idx, acqRest, sanVars>>

NextDocs ==
    \/ Clone
    \/ CopyDir
    \/ Discover
    \/ WriteTOC
    \/ ProcessDoc
    \/ WriteCombined
    \/ Render

SpecDocs == InitDocs /\ [][NextDocs]_vars

----------------------------------------------------------------------------
(* The clean-up of one parsed document in the content loop, and            *)
(* replaceURLForPlaceholders                                               *)

\* a string as the sequence of its characters
Chars(str) == [i \in 1..Len(str) |-> SubSeq(str, i, i)]

\* the class \s of the regular expression
IsSpace(c) == c \in {" ", "\t", "\n", "\f", "\r"}

\* the regular expression of replaceURLForPlaceholders:
\* {{\s*url_for\(\s*'static'\s*,\s*filename\s*=\s*'([^']+)'\s*\)\s*}}
\* as literals (lit), \s* (ws) and the group ([^']+) (cap)
Pattern ==
    << [t |-> "lit", s |-> Chars("{{")],
       [t |-> "ws", s |-> <<>>],
       [t |-> "lit", s |-> Chars("url_for(")],
       [t |-> "ws", s |-> <<>>],
       [t |-> "lit", s |-> Chars("'static'")],
       [t |-> "ws", s |-> <<>>],
       [t |-> "lit", s |-> Chars(",")],
       [t |-> "ws", s |-> <<>>],
       [t |-> "lit", s |-> Chars("filename")],
       [t |-> "ws", s |-> <<>>],
       [t |-> "lit", s |-> Chars("=")],
       [t |-> "ws", s |-> <<>>],
       [t |-> "lit", s |-> Chars("'")],
       [t |-> "cap", s |-> <<>>],
       [t |-> "lit", s |-> Chars("'")],
       [t |-> "ws", s |-> <<>>],
       [t |-> "lit", s |-> Chars(")")],
       [t |-> "ws", s |-> <<>>],
       [t |-> "lit", s |-> Chars("}}")] >>

\* the first position from i on that holds no white space
NextNonSpace(s, i) ==
    CHOOSE j \in i..(Len(s) + 1) :
        /\ (j = Len(s) + 1 \/ ~IsSpace(s[j]))
        /\ \A k \in i..(j - 1) : IsSpace(s[k])

\* the first position from i on that holds a quote
NextQuote(s, i) ==
    CHOOSE j \in i..(Len(s) + 1) :
        /\ (j = Len(s) + 1 \/ s[j] = "'")
        /\ \A k \in i..(j - 1) : s[k] # "'"

NoMatch == [ok |-> FALSE, end |-> 0, cap |-> <<>>]

\* the match of Pattern from its k-th element on at position i of s. \s* and
\* [^']+ take all they can; each is followed by a literal they cannot take,
\* so no shorter choice can match.
RECURSIVE MatchFrom(_, _, _, _)
MatchFrom(s, i, k, cap) ==
    IF k > Len(Pattern) THEN [ok |-> TRUE, end |-> i, cap |-> cap]
    ELSE LET tok == Pattern[k]
         IN  CASE tok.t = "lit" ->
                    IF /\ i + Len(tok.s) - 1 <= Len(s)
                       /\ SubSeq(s, i, i + Len(tok.s) - 1) = tok.s
                    THEN MatchFrom(s, i + Len(tok.s), k + 1, cap)
                    ELSE NoMatch
               [] tok.t = "ws" ->
                    MatchFrom(s, NextNonSpace(s, i), k + 1, cap)
               [] tok.t = "cap" ->
                    IF NextQuote(s, i) > i
                    THEN MatchFrom(s, NextQuote(s, i), k + 1,
                                   SubSeq(s, i, NextQuote(s, i) - 1))
                    ELSE NoMatch

\* re.FindStringSubmatch(src): the leftmost match and its group, or nil
FindStringSubmatch(src) ==
    IF \E i \in 1..Len(src) : MatchFrom(src, i, 1, <<>>).ok
    THEN LET i == CHOOSE a \in 1..Len(src) :
                     /\ MatchFrom(src, a, 1, <<>>).ok
                     /\ \A b \in 1..(a - 1) : ~MatchFrom(src, b, 1, <<>>).ok
             m == MatchFrom(src, i, 1, <<>>)
         IN  <<SubSeq(src, i, m.end - 1), m.cap>>
    ELSE <<>>

\* replaceURLForPlaceholders on the img elements of a document: an element
\* is [has |-> whether it has a src attribute, src |-> its value]
replaceURLForPlaceholders(elems) ==
    [i \in 1..Len(elems) |->
        IF elems[i].has /\ Len(FindStringSubmatch(elems[i].src)) = 2
        THEN [has |-> TRUE, src |-> FindStringSubmatch(elems[i].src)[2]]
        ELSE elems[i]]

\* the src values documents are drawn from
SrcUniverse ==
    { Chars("{{ url_for('static', filename='img/x.png') }}"),
      Chars("{{url_for('static',filename='x')}}"),
      Chars("{{\turl_for( 'static' ,  filename = 'x' )\n}}"),
      Chars("img/x.png"),
      Chars(""),
      Chars("/s/{{ url_for('static', filename='x') }}"),
      Chars("{{ url_for('static', filename='x') }}?v=1"),
      Chars("{{ url_for(\"static\", filename=\"x\") }}"),
      Chars("{{ url_for('media', filename='x') }}"),
      Chars("{{ url_for('static', filename='x' }}") }

ImgUniverse ==
    {[has |-> TRUE, src |-> s] : s \in SrcUniverse}
    \cup {[has |-> FALSE, src |-> <<>>]}

\* the documents: one to MaxImgs img elements
Documents == UNION {[1..n -> ImgUniverse] : n \in 1..MaxImgs}

\* the content loops that clean up a document: main.go's and part_001's
Drafts == {"main.go", "part_001"}

InitSan ==
    /\ IdleAcq
    /\ IdleDocs
    /\ draft \in Drafts
    /\ imgsIn \in Documents
    /\ imgs = imgsIn
    /\ sanStage = "parsed"

\* main.go: the removal of script, style, link, meta, iframe and noscript
\* elements; the img elements stay as they are
CleanUpMain ==
    /\ draft = "main.go" /\ sanStage = "parsed"
    /\ imgs' = imgs
    /\ sanStage' = "sanitized"
    /\ UNCHANGED <<draft, imgsIn, acqVars, docVars>>

\* part_001: the same removals, then replaceURLForPlaceholders(doc)
CleanUpPart ==
    /\ draft = "part_001" /\ sanStage = "parsed"
    /\ imgs' = replaceURLForPlaceholders(imgs)
    /\ sanStage' = "sanitized"
    /\ UNCHANGED <<draft, imgsIn, acqVars, docVars>>

NextSan ==
    \/ CleanUpMain
    \/ CleanUpPart

SpecSan == InitSan /\ [][NextSan]_vars

----------------------------------------------------------------------------
(* Claims about the acquisition (specification Spec)                       *)

\* C1: once the run has ended with an outcome other than Success, no file
\* below the output root has a name ending in .tmp or .wget.
C1_NoTemporaryFilesAfterFailure ==
    (pcMain = "exited" /\ exitCode # 0) => TempFiles = {}

\* C3: the run has never taken the interrupt path or the deadline path while
\* the wget subprocess is still running, uncancelled.
C3_RetrievalCancelled ==
    (\/ (branch = "interrupt" /\ pcMain \in {"exit1", "exited"})
     \/ (ctx = "deadlineMid" /\ pcDl \in {"ret", "send", "done"}))
    => wget # "running"

C4_InterruptCase ==
    /\ pcMain = "exited" /\ exitCode = 1
    /\ branch = "interrupt" /\ wget = "running" /\ cleanErr = "err"

\* C5: only one case of the select is ever taken, and once the interrupt
\* case has been taken the download goroutine and its subprocesses do nothing
\* more to the output root or to the process state: nothing is created below
\* the output root, the working directory stays, no subprocess is started.
C5_WinnerAloneActs ==
    [][/\ branch # "none" => branch' = branch
       /\ branch = "interrupt"
            => /\ fs' \subseteq fs
               /\ cwd' = cwd
               /\ wget' = "running" => wget = "running"
               /\ conv' = "running" => conv = "running"]_vars

\* C10: a run whose acquisition succeeded does not end before discovery: it
\* has gone on to the pipeline by the time the process exits.
C10_SuccessReachesDiscovery ==
    (pcMain = "exited" /\ exitCode = 0) => stage # "none"

----------------------------------------------------------------------------
(* Claims about discovery and aggregation (specification SpecDocs)         *)

Discovered ==
    stage \in {"fatalNoDocs", "toc", "content", "render", "rendered",
               "fatalWrite", "fatalRender"}
TocWritten == stage \in {"content", "render", "rendered", "fatalWrite", "fatalRender"}
Aggregated == stage \in {"render", "rendered", "fatalWrite", "fatalRender"}

\* C2: the aggregated document has as many table-of-contents entries as
\* content blocks, and the i-th entry is of the document of the i-th block.
C2_TocMatchesBlocks ==
    Aggregated
    => /\ Len(toc) = Len(blocks)
       /\ \A i \in 1..Len(toc) : toc[i].doc = blocks[i].doc

\* C6: the list findHTMLFiles returns holds no path twice.
C6_NoDocumentTwice ==
    Discovered
    => \A i, j \in 1..Len(htmlFiles) : htmlFiles[i] = htmlFiles[j] => i = j

\* the walk cannot reach path p: p or a directory above it is inaccessible
Inaccessible(p) == \E d \in denied : IsPrefixOf(d, p)

\* the directories of the tree that hold an index.html the walk can reach
IndexedDirs ==
    {d \in TreeDirs(tree) :
        (d \o <<INDEX_HTML>>) \in tree /\ ~Inaccessible(d \o <<INDEX_HTML>>)}

\* path lies in or below directory d
Below(d, path) == HasPrefix(path, PathStr(d) \o SLASH)

IndexOf(d) == PathStr(d) \o SLASH \o INDEX_HTML

RelativeTitle(path) ==
    ReplaceAll(
        TrimSuffix(
            TrimSuffix(TrimPrefix(path, Clean(baseDir) \o SLASH), SLASH \o INDEX_HTML),
            DOT_HTML),
        SLASH, ARROW)

ExampleTree ==
    {<<N_DOCS, N_A, INDEX_HTML>>, <<N_DOCS, N_B, N_PAGEDOC>>, <<N_DOCS, N_C, INDEX_HTML>>}

ExampleTitles == <<N_A, N_B \o ARROW \o <<"p", "a", "g", "e">>, N_C>>

\* C8: there is one title per discovered document, in traversal order, each
\* the document's path relative to the root; the example tree gives the
\* titles a, b -> page, c.
C8_TitlesRelativeToRoot ==
    TocWritten
    => /\ Len(toc) = Len(htmlFiles)
       /\ \A i \in 1..Len(toc) : toc[i].title = RelativeTitle(htmlFiles[i])
       /\ tree = ExampleTree
            => [i \in 1..Len(toc) |-> toc[i].title] = ExampleTitles

\* C9: deriving a section name from a derived section name changes nothing.
C9_TitleIdempotent ==
    TocWritten
    => \A i \in 1..Len(toc) : SectionName(toc[i].title, baseDir) = toc[i].title

----------------------------------------------------------------------------
(* Claims about the error policy of the pipeline (specification SpecDocs)  *)

\* the errors of one document: a path the walk cannot access, a file that
\* cannot be read or parsed, a missing body, a body that cannot be serialized
PerDocumentErrors == {"walkErr", "unreadable", "unparseable", "nobody", "htmlerr"}

AcquisitionErrors == {"absErr", "cloneErr", "copyErr"}

RenderErrors == {"generatorErr", "createErr", "pdfWriteErr"}

\* the content loop has gone over every discovered document: each has a
\* chapter block or is among the skipped ones, none both
AllProcessed ==
    /\ Len(blocks) + Len(skipped) = Len(htmlFiles)
    /\ \A i \in 1..Len(htmlFiles) :
         (\E j \in 1..Len(blocks) : blocks[j].doc = i)
         # (\E j \in 1..Len(skipped) : skipped[j] = i)

\* every .html file of the tree that the walk can reach has been discovered
AllReachableDiscovered ==
    \A f \in tree :
        (~Inaccessible(f) /\ HasSuffix(ToLower(PathStr(f)), DOT_HTML))
        => \E j \in 1..Len(htmlFiles) : htmlFiles[j] = PathStr(f)

\* what C11 says of the stages other than the per-document ones: once the
\* content loop is left every document has been processed, and an error of the
\* acquisition or of the render stage has ended the run with status 1.
StageErrorsAbort ==
    /\ Discovered => AllReachableDiscovered
    /\ stage \in {"render", "rendered", "fatalRender"} => AllProcessed
    /\ outcome \in AcquisitionErrors \cup RenderErrors
         => (stage \in FatalStages /\ exitCode = 1)
    /\ exitCode = 0 => (stage = "rendered" /\ outcome = "pdfWritten")

\* C11 as stated: an error of one document (in discovery or in the content
\* loop) never ends the run: the run is still going after it, the remaining
\* documents are discovered and processed; an acquisition or render error
\* always ends the run with a non-zero status.
C11_DocumentErrorsNeverAbort ==
    /\ outcome \in PerDocumentErrors => exitCode = -1
    /\ StageErrorsAbort

\* C11 as amended: an error of one document never ends the run, except that
\* a walk whose inaccessible paths leave no document at all ends it with the
\* fatal "no HTML files found"; the remaining documents are discovered and
\* processed; an acquisition or render error always ends the run with a
\* non-zero status.
C11_DocumentErrorsAbortOnlyWhenNoneLeft ==
    /\ outcome \in PerDocumentErrors
         => \/ exitCode = -1
            \/ (outcome = "walkErr" /\ stage = "fatalNoDocs" /\ htmlFiles = <<>>)
    /\ StageErrorsAbort

\* C11, its case: the walk met an inaccessible path, the content loop skipped
\* a document and wrote a block for another, and the render stage has run.
C11_Witness ==
    /\ stage \in {"rendered", "fatalRender"}
    /\ WalkErrors(tree) # {}
    /\ skipped # <<>>
    /\ blocks # <<>>

----------------------------------------------------------------------------
(* Claims about the clean-up of a document (specification SpecSan)         *)

\* src is a placeholder: all of it is {{ url_for('static', filename='X') }}
IsPlaceholder(src) ==
    /\ MatchFrom(src, 1, 1, <<>>).ok
    /\ MatchFrom(src, 1, 1, <<>>).end = Len(src) + 1

\* the X of a placeholder
PlaceholderPath(src) == MatchFrom(src, 1, 1, <<>>).cap

\* what C12 says an img element is after the clean-up
Sanitized(img) ==
    IF img.has /\ IsPlaceholder(img.src)
    THEN [has |-> TRUE, src |-> PlaceholderPath(img.src)]
    ELSE img

\* C12: after the clean-up of a document, in either content loop, every img
\* element whose src is a placeholder {{ url_for('static', filename='X') }}
\* has src X, and every other img element is as it was; the placeholder with
\* filename='img/x.png' has become img/x.png.
C12_PlaceholdersReplaced ==
    sanStage = "sanitized"
    => /\ Len(imgs) = Len(imgsIn)
       /\ \A i \in 1..Len(imgs) :
            /\ imgs[i] = Sanitized(imgsIn[i])
            /\ imgsIn[i].src = Chars("{{ url_for('static', filename='img/x.png') }}")
                 => imgs[i].src = Chars("img/x.png")

----------------------------------------------------------------------------
(* Claims about the result of the acquisition (specification Spec)         *)

\* C13: when wget has exited with status zero and <output-root>/geti2p.net
\* holds the downloaded page, downloadAndProcessDocs returns an error only if
\* the convert script was absent, exited non-zero or was cancelled; and when
\* the convert script has exited zero too and the completion case is taken,
\* the process exits with status 0.
C13_SuccessWhenSubprocessesSucceed ==
    /\ (/\ pcDl \in {"ret", "send", "done"}
        /\ wget = "ok"
        /\ F_PAGE \in fs
        /\ dlErr # "nil")
       => dlErr = "convert"
    /\ (/\ pcMain = "exited"
        /\ branch = "completion"
        /\ wget = "ok"
        /\ F_PAGE \in fs
        /\ conv = "ok")
       => exitCode = 0

====
